---- MODULE Spec2Model ----
(***************************************************************************)
(* The Viki extractors of yt_dlp/extractor/viki.py: the signed API session *)
(* (_prepare_call, _call_api, _login), the restriction check               *)
(* (_check_errors), the format resolver of VikiIE._real_extract and the    *)
(* channel paginator of VikiChannelIE._real_extract.                       *)
(*                                                                         *)
(* Python values: an optional value (None or v) is <<>> or <<v>>; a dict   *)
(* is the sequence of its <<key, value>> items in insertion order; a str   *)
(* that the code assembles is the sequence of its pieces.  One action is   *)
(* the code that runs between two network exchanges; the answer of the     *)
(* network is the action's input.                                          *)
(***************************************************************************)
EXTENDS Integers, Sequences, FiniteSets, TLC

VARIABLES
    ie,         \* IE_NAME of the extractor instance: "viki" or "viki:channel"
    creds,      \* what _get_login_info() supplies: None or the login form
    allow_unplayable,  \* self.get_param('allow_unplayable_formats')
    pc,         \* position of the extraction
    err,        \* the exception that ended the extraction, or None
    token,      \* self._token
    now,        \* int(time.time())
    api,        \* the running _call_api invocation
    signed,     \* what _prepare_call returned during the last step
    warnings,   \* number of report_warning calls
    blockers,   \* recognized truthy reasons of the checked 'blocking' map
    embedded,   \* the items of resp['streams'] the loop of line 379 has still to visit
    dedicated,  \* the add_format calls the loops of lines 393-395 have still to make
    formats,    \* the formats list
    last,       \* what the add_format call of the last step met
    result,     \* the info dict under construction; returned when pc = "done"
    vtype,      \* index of video_type in the channel loop
    page_num,   \* page_num of the channel loop
    entries,    \* the channel's entries list
    net,        \* how many network exchanges of each kind were started
    eval        \* the call of a helper function evaluated on its own: arguments and value

vars == <<ie, creds, allow_unplayable, pc, err, token, now, api, signed, warnings, blockers,
          embedded, dedicated, formats, last, result, vtype, page_num,
          entries, net, eval>>

---------------------------------------------------------------------------
(* Bounds of the model.                                                    *)

MaxClock == 2
MaxServerTime == 1
MaxFlags == 2
MaxLangs == 1
MaxEmbedded == 2
MaxDedicated == 1
MaxPages == 2

---------------------------------------------------------------------------
(* Python values.                                                          *)

None == <<>>
Some(v) == <<v>>
Range(s) == {s[i] : i \in DOMAIN s}
TruthyStr(o) == o /= None /\ o[1] /= ""
TruthyInt(o) == o /= None /\ o[1] /= 0
TruthyBool(o) == o /= None /\ o[1]

\* Sequences over S of length at most n whose elements have distinct Key.
RECURSIVE ItemSeqs(_, _, _)
ItemSeqs(S, n, used) ==
    IF n = 0 THEN {<<>>}
    ELSE {<<>>} \cup
         UNION {{<<e>> \o t : t \in ItemSeqs(S, n - 1, used \cup {e[1]})} :
                e \in {x \in S : x[1] \notin used}}

\* dict.get(key): the value of the item with that key, or None.
Get(d, key) ==
    IF \E i \in DOMAIN d : d[i][1] = key
    THEN Some(d[CHOOSE i \in DOMAIN d : d[i][1] = key][2])
    ELSE None

---------------------------------------------------------------------------
(* Class attributes of VikiBaseIE.                                         *)

_API_QUERY_TEMPLATE(path, app, t) ==
    <<"/v4/">> \o path \o <<"app=", app, "&t=", ToString(t), "&site=www.viki.com">>
_API_URL_TEMPLATE(query, sig) ==
    [host |-> "https://api.viki.io", query |-> query, sigparam |-> "&sig=", sig |-> sig]
_APP == "100005a"
_APP_VERSION == "6.0.0"
\* the 65-character shared secret, named by its first and last characters
_APP_SECRET == "MM_d...=Iad"
_ERRORS ==
    <<<<"geo", "Sorry, this content is not available in your region.">>,
      <<"upcoming", "Sorry, this content is not yet available.">>,
      <<"paywall", "Sorry, this content is only available to Viki Pass Plus subscribers">>>>
_PER_PAGE == 25

video_id == "1175236v"
channel_id == "50c"

\* hmac.new(key, msg, sha1).hexdigest(): a digest that determines its input.
hexdigest(key, msg) == [hmac_sha1_key |-> key, of |-> msg]

\* The three client-identity headers of an API call.
ApiHeaders ==
    <<<<"x-client-user-agent", "User-Agent">>,
      <<"x-viki-as-id", _APP>>,
      <<"x-viki-app-ver", _APP_VERSION>>>>

---------------------------------------------------------------------------
(* _prepare_call: the signed URL, or the signed POST request.              *)

\* timestamp = int(time.time()) unless a truthy timestamp was passed
SignedTimestamp(timestamp) ==
    IF ~TruthyInt(timestamp) THEN now ELSE timestamp[1]

\* the '&token=...' suffix of the query
TokenSuffix == IF TruthyStr(token) THEN <<"&token=", token[1]>> ELSE <<>>

\* Variant: the generated parameters are always appended with '?'.
_prepare_call_always_question(path, timestamp, post_data) ==
    LET path1 == path \o <<"?">>
        query == _API_QUERY_TEMPLATE(path1, _APP, SignedTimestamp(timestamp))
                     \o TokenSuffix
        sig == hexdigest(_APP_SECRET, query)
        url == _API_URL_TEMPLATE(query, sig)
    IN  IF post_data /= None
        THEN [url |-> url, data |-> Some([json |-> post_data[1]])]
        ELSE [url |-> url, data |-> None]

\* Variant: the token is appended after the signature was computed.
_prepare_call_token_unsigned(path, timestamp, post_data) ==
    LET path1 == path \o (IF "?" \notin Range(path) THEN <<"?">> ELSE <<"&">>)
        query == _API_QUERY_TEMPLATE(path1, _APP, SignedTimestamp(timestamp))
        sig == hexdigest(_APP_SECRET, query)
        url == _API_URL_TEMPLATE(query \o TokenSuffix, sig)
    IN  IF post_data /= None
        THEN [url |-> url, data |-> Some([json |-> post_data[1]])]
        ELSE [url |-> url, data |-> None]

_prepare_call(path, timestamp, post_data) ==
    LET path1 == path \o (IF "?" \notin Range(path) THEN <<"?">> ELSE <<"&">>)
        query == _API_QUERY_TEMPLATE(path1, _APP, SignedTimestamp(timestamp))
                     \o TokenSuffix
        sig == hexdigest(_APP_SECRET, query)
        url == _API_URL_TEMPLATE(query, sig)
    IN  IF post_data /= None
        THEN [url |-> url, data |-> Some([json |-> post_data[1]])]
        ELSE [url |-> url, data |-> None]

---------------------------------------------------------------------------
(* What the API answers.                                                   *)

ServerTimes == 0 .. MaxServerTime
Tokens == {None, Some("tok")}

NoBody == [none |-> TRUE]
LoginBodies == {[token |-> t] : t \in Tokens}

\* A response: its 'error', its 'current_timestamp' and the rest of it.
ResponsesOf(bodies) ==
    {[error |-> e, current_timestamp |-> None, body |-> b] :
        e \in {None, Some("")}, b \in bodies}
    \cup {[error |-> Some("invalid timestamp"), current_timestamp |-> Some(t),
           body |-> NoBody] : t \in ServerTimes}
    \cup {[error |-> Some("something else"), current_timestamp |-> None,
           body |-> NoBody]}

---------------------------------------------------------------------------
(* Media URLs.  A URL is its text and the value of its 'stream' query      *)
(* parameter (None when it has none); what the code asks of a URL's text   *)
(* (a prefix, a regular expression, a substring) is a table over the URLs  *)
(* of the model.                                                           *)

Plain(text) == [text |-> text, stream |-> None]
b64encode(u) == [b64 |-> u]
b64decode(s) == s.b64
WithStream(text, inner) == [text |-> text, stream |-> Some(b64encode(inner))]

U_mp4 == Plain("https://cdn.example/video.mp4")
U_hls == Plain("https://cdn.example/master.m3u8")
U_mpd == Plain("https://cdn.example/manifest.mpd")
U_rtmp == Plain("rtmp://host.example/vod/mp4:clip")
U_rtmp_bad == Plain("rtmp://host.example/clip.flv")
U_real == Plain("https://real.example/video.mp4")
U_obfuscated == WithStream("https://cdn.example/play", U_real)
U_external == Plain("https://www.youtube.com/watch?v=ext")
U_variant == Plain("https://cdn.example/index_1.m3u8")
U_variant_drm == Plain("https://cdn.example/x_drm/index_1.m3u8")
U_segment == Plain("https://cdn.example/video-1.mp4")
U_empty == Plain("")
U_obfuscated_rtmp == WithStream("https://cdn.example/play-rtmp", U_rtmp)

\* format_url.startswith('rtmp')
startswith_rtmp(u) == u.text \in {U_rtmp.text, U_rtmp_bad.text}

\* re.search(r'^(?P<url>rtmp://[^/]+/(?P<app>.+?))/(?P<playpath>mp4:.+)$', format_url)
rtmp_search(u) ==
    IF u.text = U_rtmp.text
    THEN Some([url |-> Plain("rtmp://host.example/vod"), app |-> "vod",
               playpath |-> "mp4:clip"])
    ELSE None

\* '_drm/index_' in f['url']
has_drm_marker(u) == u.text = U_variant_drm.text

\* self._search_regex(r'^(\d+)[pP]$', format_id, 'height', default=None)
search_height(format_id) ==
    CASE format_id = "360p" -> Some("360")
      [] format_id = "480p" -> Some("480")
      [] format_id = "720P" -> Some("720")
      [] OTHER -> None

\* int_or_none of a str or None: the int of a decimal string, else None
int_or_none(v) ==
    IF v = None THEN None
    ELSE CASE v[1] = "360" -> Some(360)
           [] v[1] = "480" -> Some(480)
           [] v[1] = "720" -> Some(720)
           [] v[1] = "1048576" -> Some(1048576)
           [] OTHER -> None

\* What the manifest extractors and the HEAD probe can answer.
F_muxed == [url |-> U_variant, acodec |-> Some("mp4a.40.2"), vcodec |-> Some("avc1")]
F_video_only == [url |-> U_variant, acodec |-> Some("none"), vcodec |-> Some("avc1")]
F_drm == [url |-> U_variant_drm, acodec |-> Some("mp4a.40.2"), vcodec |-> Some("avc1")]
M3u8Answers ==
    {[ok |-> FALSE, formats |-> <<>>],
     [ok |-> TRUE, formats |-> <<F_muxed>>],
     [ok |-> TRUE, formats |-> <<F_drm, F_video_only>>]}
MpdAnswers ==
    {[ok |-> FALSE, formats |-> <<>>],
     [ok |-> TRUE, formats |-> <<[url |-> U_segment, acodec |-> Some("none"),
                                  vcodec |-> Some("avc1")]>>]}
HeadAnswers ==
    {[ok |-> FALSE, content_length |-> None],
     [ok |-> TRUE, content_length |-> None],
     [ok |-> TRUE, content_length |-> Some("1048576")]}
NoAnswer == [ok |-> TRUE]

\* self._extract_m3u8_formats(format_url, video_id, 'mp4', m3u8_id=..., fatal=False)
_extract_m3u8_formats(format_url, m3u8_id, answer) ==
    IF answer.ok
    THEN [i \in DOMAIN answer.formats |->
            [url |-> answer.formats[i].url, format_id |-> m3u8_id \o <<"-", ToString(i)>>,
             ext |-> "mp4", protocol |-> "m3u8_native",
             acodec |-> answer.formats[i].acodec, vcodec |-> answer.formats[i].vcodec]]
    ELSE <<>>

\* self._extract_mpd_formats(format_url, video_id, mpd_id, fatal=False)
_extract_mpd_formats(format_url, mpd_id, answer) ==
    IF answer.ok
    THEN [i \in DOMAIN answer.formats |->
            [url |-> answer.formats[i].url, format_id |-> mpd_id \o <<"-", ToString(i)>>,
             protocol |-> "http_dash_segments",
             acodec |-> answer.formats[i].acodec, vcodec |-> answer.formats[i].vcodec]]
    ELSE <<>>

\* self._request_webpage(HEADRequest(format_url), ..., fatal=False): the
\* response, or False when the probe failed
_request_webpage(format_url, answer) ==
    IF answer.ok THEN Some([headers |-> [content_length |-> answer.content_length]])
    ELSE None

---------------------------------------------------------------------------
(* add_format of VikiIE._real_extract: what one call appends to formats,   *)
(* the exception it raises, and what it met.  answer is what the network   *)
(* exchange of the call, when it makes one, came back with.                *)

\* format_url after the 'stream' parameter, when present, was decoded
FormatUrl(format_dict) ==
    LET format_url == format_dict.url[1]
        stream == format_url.stream
    IN  IF stream /= None THEN b64decode(stream[1]) ELSE format_url

\* if not format_url
NoUrl(format_dict) == format_dict.url = None \/ format_dict.url[1].text = ""

\* Variant: the rtmp prefix of the URL is tested before the format id.
Branch_url_first(format_id, format_dict, protocol) ==
    IF protocol = "rtmps" THEN "rtmps"
    ELSE IF NoUrl(format_dict) THEN "no_url"
    ELSE IF startswith_rtmp(FormatUrl(format_dict)) THEN "rtmp"
    ELSE IF format_id \in {"m3u8", "hls"} THEN "hls"
    ELSE IF format_id \in {"mpd", "dash"} THEN "dash"
    ELSE "http"

\* The branch of add_format an entry takes.
Branch(format_id, format_dict, protocol) ==
    IF protocol = "rtmps" THEN "rtmps"
    ELSE IF NoUrl(format_dict) THEN "no_url"
    ELSE IF format_id \in {"m3u8", "hls"} THEN "hls"
    ELSE IF format_id \in {"mpd", "dash"} THEN "dash"
    ELSE IF startswith_rtmp(FormatUrl(format_dict)) THEN "rtmp"
    ELSE "http"

\* The network exchange of each branch.
Answers(branch) ==
    CASE branch = "hls" -> M3u8Answers
      [] branch = "dash" -> MpdAnswers
      [] branch = "http" -> HeadAnswers
      [] OTHER -> {NoAnswer}

\* Variant: DRM formats are dropped whatever allow_unplayable_formats is.
HlsPostProcess_no_opt_in(m3u8_formats) ==
    LET kept == SelectSeq(m3u8_formats, LAMBDA f : ~has_drm_marker(f.url))
    IN  [i \in DOMAIN kept |->
            IF kept[i].acodec = Some("none") /\ kept[i].vcodec /= Some("none")
            THEN [kept[i] EXCEPT !.acodec = None]
            ELSE kept[i]]

\* the loop over m3u8_formats
HlsPostProcess(m3u8_formats) ==
    LET kept == SelectSeq(m3u8_formats,
                    LAMBDA f : ~(~allow_unplayable /\ has_drm_marker(f.url)))
    IN  [i \in DOMAIN kept |->
            IF kept[i].acodec = Some("none") /\ kept[i].vcodec /= Some("none")
            THEN [kept[i] EXCEPT !.acodec = None]
            ELSE kept[i]]

\* the progressive branch: the HEAD probe and the descriptor
Progressive(format_id, format_url, protocol, answer) ==
    LET urlh == _request_webpage(format_url, answer)
    IN  IF urlh = None
        THEN [append |-> <<>>, met |-> "probe_failed",
              raised |-> Some([kind |-> "AttributeError",
                               msg |-> <<"'bool' object has no attribute 'headers'">>,
                               expected |-> FALSE])]
        ELSE [append |->
                <<[url |-> format_url,
                   format_id |-> <<format_id, "-", protocol>>,
                   height |-> int_or_none(search_height(format_id)),
                   filesize |-> int_or_none(urlh[1].headers.content_length)]>>,
              met |-> "http", raised |-> None]

add_format(format_id, format_dict, protocol, answer) ==
    LET branch == Branch(format_id, format_dict, protocol)
        skip(why) == [append |-> <<>>, met |-> why, raised |-> None]
    IN  CASE branch \in {"rtmps", "no_url"} -> skip(branch)
          [] branch = "hls" ->
                [append |-> HlsPostProcess(_extract_m3u8_formats(
                                FormatUrl(format_dict), <<"m3u8-", protocol>>, answer)),
                 met |-> IF answer.ok THEN "hls" ELSE "manifest_failed",
                 raised |-> None]
          [] branch = "dash" ->
                [append |-> _extract_mpd_formats(
                                FormatUrl(format_dict), <<"mpd-", protocol>>, answer),
                 met |-> IF answer.ok THEN "dash" ELSE "manifest_failed",
                 raised |-> None]
          [] branch = "rtmp" ->
                LET mobj == rtmp_search(FormatUrl(format_dict))
                IN  IF mobj = None THEN skip("rtmp_mismatch")
                    ELSE [append |->
                            <<[format_id |-> <<"rtmp-", format_id>>, ext |-> "flv",
                               url |-> mobj[1].url, play_path |-> mobj[1].playpath,
                               app |-> mobj[1].app, page_url |-> "url"]>>,
                          met |-> "rtmp", raised |-> None]
          [] OTHER -> Progressive(format_id, FormatUrl(format_dict), protocol, answer)

\* The format maps a response can hold.
D_mp4 == [url |-> Some(U_mp4)]
D_hls == [url |-> Some(U_hls)]
D_mpd == [url |-> Some(U_mpd)]
D_missing == [url |-> None]
D_rtmp_bad == [url |-> Some(U_rtmp_bad)]
D_obfuscated == [url |-> Some(U_obfuscated)]

EmbeddedItems ==
    {<<"m3u8", D_hls>>, <<"360p", D_mp4>>, <<"480p", D_missing>>, <<"rtmp", D_rtmp_bad>>}
EmbeddedMaps == {None} \cup {Some(m) : m \in ItemSeqs(EmbeddedItems, MaxEmbedded, {})}

StreamDicts ==
    {<<<<"http", D_obfuscated>>>>,
     <<<<"rtmps", D_mp4>>, <<"http", D_mp4>>>>,
     <<<<"https", D_missing>>>>}
DedicatedItems ==
    {<<"360p", sd>> : sd \in StreamDicts} \cup {<<"mpd", <<<<"http", D_mpd>>>>>>}
External == <<"external", [url |-> U_external]>>
StreamsBodies ==
    LET maps == ItemSeqs(DedicatedItems, MaxDedicated, {})
    IN  maps \cup {<<External>> \o m : m \in maps}

\* The subtitle_completions of a video.
SubtitleMaps ==
    {None} \cup {Some(m) : m \in ItemSeqs({<<"en", 100>>, <<"fr", 42>>}, MaxLangs, {})}

\* The 'blocking' maps of a video or a channel.
Reasons == {"geo", "paywall", "upcoming", "other"}
BlockingMaps ==
    {None} \cup
    {Some(m) : m \in ItemSeqs({<<r, b>> : r \in Reasons, b \in BOOLEAN}, MaxFlags, {})}
ChannelBodies == {[blocking |-> m] : m \in BlockingMaps}

\* A listing page: 'response' (the videos' ids) and 'pagination'.
PageBodies ==
    {[response |-> r, pagination |-> [next |-> n]] :
        r \in {<<>>, <<"7v", "8v">>}, n \in BOOLEAN}

---------------------------------------------------------------------------
(* _call_api: one invocation is api; it is "first" while the first         *)
(* request is out, "retry" while the re-issued one is, then "returned" or  *)
(* "raised".  sent and resps are the requests issued and the responses     *)
(* received by this invocation, in order.                                  *)

ApiIdle ==
    [pc |-> "idle", caller |-> "", path |-> <<>>, note |-> <<>>,
     post_data |-> None, sent |-> <<>>, resps |-> <<>>, result |-> None]

\* self._download_json(self._prepare_call(path, timestamp, post_data), ...)
ApiRequest(path, note, timestamp, post_data) ==
    [request |-> _prepare_call(path, timestamp, post_data), note |-> note,
     headers |-> ApiHeaders]

\* The call, up to the first request being out (timestamp is None at every
\* call site).
_call_api(caller, path, note, post_data) ==
    [pc |-> "first", caller |-> caller, path |-> path, note |-> note,
     post_data |-> post_data, sent |-> <<ApiRequest(path, note, None, post_data)>>,
     resps |-> <<>>, result |-> None]

_raise_error(error) ==
    [kind |-> "ExtractorError", msg |-> <<ie, " returned error: ", error>>,
     expected |-> TRUE]

\* error == 'invalid timestamp'
IsTimestampError(error) == error = "invalid timestamp"

\* Variant: the error of the first response is raised, whichever response
\* ended the call.
ApiRaise_first_message(resp) ==
    /\ api' = [api EXCEPT !.pc = "raised", !.resps = Append(@, resp)]
    /\ pc' = "failed"
    /\ err' = Some([kind |-> "ExtractorError",
                    msg |-> <<ie, " returned error: ",
                              Append(api.resps, resp)[1].error[1]>>,
                    expected |-> TRUE])
    /\ signed' = <<>>

\* Variant: the re-issued request is built without the POST payload.
RetryRequest_without_payload(resp) ==
    ApiRequest(api.path, api.note \o <<" (retry)">>,
               Some(resp.current_timestamp[1]), None)

\* the re-issued request
RetryRequest(resp) ==
    ApiRequest(api.path, api.note \o <<" (retry)">>,
               Some(resp.current_timestamp[1]), api.post_data)

\* return resp
Returned(first, resp) == resp

Bodies(caller) ==
    CASE caller = "login" -> LoginBodies
      [] caller = "streams" -> StreamsBodies
      [] caller = "channel" -> ChannelBodies
      [] caller = "listing" -> PageBodies

ApiFrame ==
    /\ last' = None
    /\ UNCHANGED <<eval, ie, creds, allow_unplayable, token, now, warnings, blockers,
                   embedded, dedicated, formats, result, vtype, page_num, entries, net>>

ApiRaise(resp) ==
    /\ api' = [api EXCEPT !.pc = "raised", !.resps = Append(@, resp)]
    /\ pc' = "failed"
    /\ err' = Some(_raise_error(resp.error[1]))
    /\ signed' = <<>>

ApiReturn(resp) ==
    /\ api' = [api EXCEPT !.pc = "returned", !.resps = Append(@, resp),
                          !.result = Some(Returned(api.resps, resp))]
    /\ UNCHANGED <<pc, err>>
    /\ signed' = <<>>

\* lines 75-79 and 87-90: the first response arrives
_call_api_first ==
    /\ api.pc = "first"
    /\ \E resp \in ResponsesOf(Bodies(api.caller)) :
        IF TruthyStr(resp.error)
        THEN IF IsTimestampError(resp.error[1])
             THEN LET req == RetryRequest(resp)
                  IN  /\ api' = [api EXCEPT !.pc = "retry", !.sent = Append(@, req),
                                            !.resps = Append(@, resp)]
                      /\ signed' = <<req.request>>
                      /\ UNCHANGED <<pc, err>>
             ELSE ApiRaise(resp)
        ELSE ApiReturn(resp)
    /\ ApiFrame

\* Variant: another 'invalid timestamp' is answered by another request.
_call_api_retry_again ==
    /\ api.pc = "retry"
    /\ \E resp \in ResponsesOf(Bodies(api.caller)) :
        IF TruthyStr(resp.error)
        THEN IF IsTimestampError(resp.error[1])
             THEN LET req == RetryRequest(resp)
                  IN  /\ api' = [api EXCEPT !.sent = Append(@, req),
                                            !.resps = Append(@, resp)]
                      /\ signed' = <<req.request>>
                      /\ UNCHANGED <<pc, err>>
             ELSE ApiRaise(resp)
        ELSE ApiReturn(resp)
    /\ ApiFrame

\* lines 86-90: the response to the re-issued request arrives
_call_api_retry ==
    /\ api.pc = "retry"
    /\ \E resp \in ResponsesOf(Bodies(api.caller)) :
        IF TruthyStr(resp.error) THEN ApiRaise(resp) ELSE ApiReturn(resp)
    /\ ApiFrame

---------------------------------------------------------------------------
(* _real_initialize and _login.                                            *)

NetZero ==
    [login |-> 0, meta |-> 0, streams |-> 0, channel |-> 0, listing |-> 0,
     head |-> 0, manifest |-> 0, subtitles |-> 0, embedded_items |-> 0,
     from_embedded |-> 0, from_dedicated |-> 0, external |-> 0]

LoginFrame ==
    UNCHANGED <<eval, ie, creds, allow_unplayable, now, blockers, embedded, dedicated,
                formats, last, result, vtype, page_num, entries>>

\* _login up to the login call: nothing to do without a username
_real_initialize ==
    /\ pc = "initialize"
    /\ IF creds = None
       THEN /\ pc' = "extract"
            /\ signed' = <<>>
            /\ UNCHANGED <<api, net>>
       ELSE LET call == _call_api("login", <<"sessions.json">>, <<"Logging in">>, creds)
            IN  /\ pc' = "login"
                /\ api' = call
                /\ signed' = <<call.sent[1].request>>
                /\ net' = [net EXCEPT !.login = @ + 1]
    /\ UNCHANGED <<err, token, warnings>>
    /\ LoginFrame

\* Variant: a login response without token ends the extraction with an error.
_login_fatal ==
    /\ pc = "login"
    /\ api.pc = "returned"
    /\ LET login == api.result[1].body
       IN  /\ token' = login.token
           /\ IF ~TruthyStr(login.token)
              THEN /\ pc' = "failed"
                   /\ err' = Some([kind |-> "ExtractorError",
                                   msg |-> <<"Unable to get session token">>,
                                   expected |-> TRUE])
              ELSE /\ pc' = "extract"
                   /\ err' = err
    /\ api' = ApiIdle
    /\ signed' = <<>>
    /\ UNCHANGED <<warnings, net>>
    /\ LoginFrame

\* lines 125-127: the login call returned
_login ==
    /\ pc = "login"
    /\ api.pc = "returned"
    /\ LET login == api.result[1].body
       IN  /\ token' = login.token
           /\ warnings' = IF ~TruthyStr(login.token) THEN warnings + 1 ELSE warnings
    /\ pc' = "extract"
    /\ api' = ApiIdle
    /\ signed' = <<>>
    /\ UNCHANGED <<err, net>>
    /\ LoginFrame

\* the local clock advances
Tick ==
    /\ now < MaxClock
    /\ pc \notin {"done", "failed"}
    /\ now' = now + 1
    /\ UNCHANGED <<eval, ie, creds, allow_unplayable, pc, err, token, api, signed, warnings,
                   blockers, embedded, dedicated, formats, last, result, vtype,
                   page_num, entries, net>>

---------------------------------------------------------------------------
(* _check_errors.                                                          *)

OrEmpty(o) == IF o = None THEN <<>> ELSE o[1]
Keys(d) == {d[i][1] : i \in DOMAIN d}

\* self.raise_geo_restricted(msg=message)
raise_geo_restricted(message) ==
    [kind |-> "GeoRestrictedError", msg |-> <<message>>, expected |-> TRUE]

\* self.raise_login_required(message)
raise_login_required(message) ==
    [kind |-> "LoginRequiredError", msg |-> <<message>>, expected |-> TRUE]

\* the body of the loop, from item i of the map on
RECURSIVE CheckErrorsFrom(_, _)
CheckErrorsFrom(items, i) ==
    IF i > Len(items) THEN None
    ELSE LET reason == items[i][1]
             status == items[i][2]
         IN  IF status /\ reason \in Keys(_ERRORS)
             THEN LET message == Get(_ERRORS, reason)[1]
                  IN  IF reason = "geo" THEN Some(raise_geo_restricted(message))
                      ELSE IF reason = "paywall"
                      THEN Some(raise_login_required(message))
                      ELSE Some([kind |-> "ExtractorError",
                                 msg |-> <<ie, " said: ", message>>,
                                 expected |-> TRUE])
             ELSE CheckErrorsFrom(items, i + 1)

\* Variant: only the first item of the map is looked at.
_check_errors_first_only(data) ==
    LET items == OrEmpty(data.blocking)
    IN  CheckErrorsFrom(IF items = <<>> THEN <<>> ELSE <<items[1]>>, 1)

\* Variant: the map is walked from its last item to its first.
_check_errors_last_wins(data) ==
    LET items == OrEmpty(data.blocking)
    IN  CheckErrorsFrom([i \in DOMAIN items |-> items[Len(items) + 1 - i]], 1)

\* the exception _check_errors raises on data, or None when it returns
_check_errors(data) == CheckErrorsFrom(OrEmpty(data.blocking), 1)

\* The recognized reasons with a truthy status, in the map's order.
RecognizedTruthy(blocking) ==
    LET hits == SelectSeq(OrEmpty(blocking),
                    LAMBDA it : it[2] /\ it[1] \in {"geo", "upcoming", "paywall"})
    IN  [i \in DOMAIN hits |-> hits[i][1]]

---------------------------------------------------------------------------
(* VikiIE._real_extract.                                                   *)

\* the subtitles dict: two signed URLs for each language
Subtitles(subtitle_completions) ==
    LET langs == OrEmpty(subtitle_completions)
    IN  [i \in DOMAIN langs |->
            <<langs[i][1],
              [k \in 1 .. 2 |->
                 LET subtitles_format == <<"srt", "vtt">>[k]
                 IN  [ext |-> subtitles_format,
                      url |-> _prepare_call(
                          <<"videos/", video_id, "/subtitles/", langs[i][1], ".",
                            subtitles_format>>, None, None)]]>>]

\* the URLs signed for the subtitles, in the order they were signed
RECURSIVE SubtitleUrls(_)
SubtitleUrls(subs) ==
    IF subs = <<>> THEN <<>>
    ELSE <<subs[1][2][1].url, subs[1][2][2].url>> \o SubtitleUrls(Tail(subs))

\* self._sort_formats(formats): the order it gives is not modelled
_sort_formats(fs) == fs

\* Variants: the streams endpoint is always asked, or never.
NeedsStreamsCall_always(fs) == TRUE
NeedsStreamsCall_never(fs) == FALSE

\* if not formats
NeedsStreamsCall(fs) == fs = <<>>

\* lines 381-399 once the loop over the embedded map has ended with formats fs
AfterEmbedded(fs, res, pre, net1) ==
    IF NeedsStreamsCall(fs)
    THEN LET call == _call_api("streams", <<"videos/", video_id, "/streams.json">>,
                               <<"Downloading video streams JSON">>, None)
         IN  /\ pc' = "streams"
             /\ api' = call
             /\ signed' = pre \o <<call.sent[1].request>>
             /\ result' = res
             /\ net' = [net1 EXCEPT !.streams = @ + 1]
    ELSE /\ pc' = "done"
         /\ result' = [res EXCEPT !.formats = Some(_sort_formats(fs))]
         /\ signed' = pre
         /\ net' = net1
         /\ UNCHANGED api

\* the network exchanges and descriptors one add_format call adds to net
Counted(net0, branch, r, source) ==
    [net0 EXCEPT
        !.head = @ + (IF branch = "http" THEN 1 ELSE 0),
        !.manifest = @ + (IF branch \in {"hls", "dash"} THEN 1 ELSE 0),
        !.from_embedded = @ + (IF source = "embedded" THEN Len(r.append) ELSE 0),
        !.from_dedicated = @ + (IF source = "dedicated" THEN Len(r.append) ELSE 0)]

\* lines 271-278: the metadata request goes out
VikiIE_real_extract ==
    /\ pc = "extract"
    /\ ie = "viki"
    /\ pc' = "video_json"
    /\ net' = [net EXCEPT !.meta = @ + 1]
    /\ signed' = <<>>
    /\ UNCHANGED <<eval, ie, creds, allow_unplayable, err, token, now, api, warnings,
                   blockers, embedded, dedicated, formats, last, result, vtype,
                   page_num, entries>>

\* lines 279-325 and, when the embedded map is empty, 379-399
VideoJson ==
    /\ pc = "video_json"
    /\ \E blocking \in BlockingMaps :
        LET video == [blocking |-> blocking]
            e == _check_errors(video)
        IN  /\ blockers' = RecognizedTruthy(blocking)
            /\ IF e /= None
               THEN /\ pc' = "failed"
                    /\ err' = e
                    /\ signed' = <<>>
                    /\ UNCHANGED <<api, embedded, formats, result, net>>
               ELSE \E subtitle_completions \in SubtitleMaps, streams \in EmbeddedMaps :
                    LET subtitles == Subtitles(subtitle_completions)
                        pre == SubtitleUrls(subtitles)
                        res == [id |-> video_id, subtitles |-> subtitles,
                                type |-> None, url |-> None, formats |-> None]
                        net1 == [net EXCEPT !.subtitles = @ + Len(pre),
                                            !.embedded_items = Len(OrEmpty(streams))]
                    IN  /\ embedded' = OrEmpty(streams)
                        /\ formats' = <<>>
                        /\ err' = None
                        /\ IF OrEmpty(streams) = <<>>
                           THEN AfterEmbedded(<<>>, res, pre, net1)
                           ELSE /\ pc' = "embedded"
                                /\ result' = res
                                /\ signed' = pre
                                /\ net' = net1
                                /\ UNCHANGED api
    /\ last' = None
    /\ UNCHANGED <<eval, ie, creds, allow_unplayable, token, now, warnings, dedicated,
                   vtype, page_num, entries>>

\* line 380: one add_format call of the loop over the embedded map and, after
\* the last one, lines 381-399
AddEmbedded ==
    /\ pc = "embedded"
    /\ embedded /= <<>>
    /\ LET format_id == Head(embedded)[1]
           format_dict == Head(embedded)[2]
           branch == Branch(format_id, format_dict, "http")
       IN  \E answer \in Answers(branch) :
            LET r == add_format(format_id, format_dict, "http", answer)
                net1 == Counted(net, branch, r, "embedded")
            IN  /\ last' = Some([format_id |-> format_id, protocol |-> "http",
                                 met |-> r.met, appended |-> r.append])
                /\ IF r.raised /= None
                   THEN /\ pc' = "failed"
                        /\ err' = r.raised
                        /\ signed' = <<>>
                        /\ net' = net1
                        /\ UNCHANGED <<api, embedded, formats, result>>
                   ELSE /\ formats' = formats \o r.append
                        /\ embedded' = Tail(embedded)
                        /\ err' = err
                        /\ IF Tail(embedded) = <<>>
                           THEN AfterEmbedded(formats \o r.append, result, <<>>, net1)
                           ELSE /\ signed' = <<>>
                                /\ net' = net1
                                /\ UNCHANGED <<pc, api, result>>
    /\ UNCHANGED <<eval, ie, creds, allow_unplayable, token, now, warnings, blockers,
                   dedicated, vtype, page_num, entries>>

\* the add_format calls of lines 393-395, in order
RECURSIVE Flatten(_)
Flatten(streams) ==
    IF streams = <<>> THEN <<>>
    ELSE LET format_id == streams[1][1]
             stream_dict == streams[1][2]
         IN  [j \in DOMAIN stream_dict |->
                [format_id |-> format_id, protocol |-> stream_dict[j][1],
                 format_dict |-> stream_dict[j][2]]]
             \o Flatten(Tail(streams))

\* 'external' in streams
IsExternal(streams) == "external" \in Keys(streams)

\* lines 396-399
Finish(fs, net1) ==
    /\ pc' = "done"
    /\ result' = [result EXCEPT !.formats = Some(_sort_formats(fs))]
    /\ net' = net1

\* Variant: the 'return result' of line 391 is missing.
StreamsJson_no_return ==
    /\ pc = "streams"
    /\ api.pc = "returned"
    /\ LET streams == api.result[1].body
           rest == SelectSeq(streams, LAMBDA it : it[1] /= "external")
       IN  /\ dedicated' = Flatten(rest)
           /\ IF Flatten(rest) = <<>>
              THEN /\ pc' = "done"
                   /\ result' = [result EXCEPT
                        !.type = IF IsExternal(streams) THEN Some("url_transparent") ELSE @,
                        !.url = IF IsExternal(streams)
                                THEN Some(Get(streams, "external")[1].url) ELSE @,
                        !.formats = Some(_sort_formats(formats))]
              ELSE /\ pc' = "dedicated"
                   /\ result' = [result EXCEPT
                        !.type = IF IsExternal(streams) THEN Some("url_transparent") ELSE @,
                        !.url = IF IsExternal(streams)
                                THEN Some(Get(streams, "external")[1].url) ELSE @]
           /\ net' = [net EXCEPT !.external = @ + (IF IsExternal(streams) THEN 1 ELSE 0)]
    /\ UNCHANGED api
    /\ signed' = <<>>
    /\ last' = None
    /\ UNCHANGED <<eval, ie, creds, allow_unplayable, err, token, now, warnings, blockers,
                   embedded, formats, vtype, page_num, entries>>

\* lines 386-395: the streams call returned
StreamsJson ==
    /\ pc = "streams"
    /\ api.pc = "returned"
    /\ LET streams == api.result[1].body
       IN  IF IsExternal(streams)
           THEN /\ result' = [result EXCEPT !.type = Some("url_transparent"),
                                            !.url = Some(Get(streams, "external")[1].url)]
                /\ pc' = "done"
                /\ net' = [net EXCEPT !.external = @ + 1]
                /\ UNCHANGED <<dedicated, api>>
           ELSE /\ dedicated' = Flatten(streams)
                /\ api' = ApiIdle
                /\ IF Flatten(streams) = <<>>
                   THEN Finish(formats, net)
                   ELSE /\ pc' = "dedicated"
                        /\ UNCHANGED <<result, net>>
    /\ signed' = <<>>
    /\ last' = None
    /\ UNCHANGED <<eval, ie, creds, allow_unplayable, err, token, now, warnings, blockers,
                   embedded, formats, vtype, page_num, entries>>

\* line 395: one add_format call of the loops over the streams response and,
\* after the last one, lines 396-399
AddDedicated ==
    /\ pc = "dedicated"
    /\ dedicated /= <<>>
    /\ LET c == Head(dedicated)
           branch == Branch(c.format_id, c.format_dict, c.protocol)
       IN  \E answer \in Answers(branch) :
            LET r == add_format(c.format_id, c.format_dict, c.protocol, answer)
                net1 == Counted(net, branch, r, "dedicated")
            IN  /\ last' = Some([format_id |-> c.format_id, protocol |-> c.protocol,
                                 met |-> r.met, appended |-> r.append])
                /\ IF r.raised /= None
                   THEN /\ pc' = "failed"
                        /\ err' = r.raised
                        /\ net' = net1
                        /\ UNCHANGED <<dedicated, formats, result>>
                   ELSE /\ formats' = formats \o r.append
                        /\ dedicated' = Tail(dedicated)
                        /\ err' = err
                        /\ IF Tail(dedicated) = <<>>
                           THEN Finish(formats \o r.append, net1)
                           ELSE /\ net' = net1
                                /\ UNCHANGED <<pc, result>>
    /\ signed' = <<>>
    /\ UNCHANGED <<eval, ie, creds, allow_unplayable, token, now, api, warnings, blockers,
                   embedded, vtype, page_num, entries>>

---------------------------------------------------------------------------
(* VikiChannelIE._real_extract.                                            *)

VideoTypes == <<"episodes", "clips", "movies">>

\* the path of a listing call
ListingPath(video_type, page) ==
    <<"containers/", channel_id, "/", video_type, ".json", "?", "per_page=",
      ToString(_PER_PAGE), "&sort=number&direction=asc&with_paging=true&page=",
      ToString(page)>>

\* the listing call of lines 451-454
ListingCall(t, page) ==
    _call_api("listing", ListingPath(VideoTypes[t], page),
              <<"Downloading ", VideoTypes[t], " JSON page #", ToString(page)>>, None)

\* self.url_result('https://www.viki.com/videos/%s' % video_id, 'Viki')
url_result(id) ==
    [type |-> "url", url |-> <<"https://www.viki.com/videos/", id>>, ie_key |-> "Viki"]

\* Variant: the category is left at the first empty page.
LastPage_on_empty(page) == page.response = <<>>

\* if not page['pagination']['next']: break
LastPage(page) == ~page.pagination.next

\* lines 436-440: the channel call goes out
VikiChannelIE_real_extract ==
    /\ pc = "extract"
    /\ ie = "viki:channel"
    /\ LET call == _call_api("channel", <<"containers/", channel_id, ".json">>,
                             <<"Downloading channel JSON">>, None)
       IN  /\ api' = call
           /\ signed' = <<call.sent[1].request>>
    /\ pc' = "channel_json"
    /\ net' = [net EXCEPT !.channel = @ + 1]
    /\ UNCHANGED <<eval, ie, creds, allow_unplayable, err, token, now, warnings, blockers,
                   embedded, dedicated, formats, last, result, vtype, page_num,
                   entries>>

\* lines 442-454: the channel call returned; the first listing call goes out
ChannelJson ==
    /\ pc = "channel_json"
    /\ api.pc = "returned"
    /\ LET channel == api.result[1].body
           e == _check_errors(channel)
       IN  /\ blockers' = RecognizedTruthy(channel.blocking)
           /\ IF e /= None
              THEN /\ pc' = "failed"
                   /\ err' = e
                   /\ api' = ApiIdle
                   /\ signed' = <<>>
                   /\ UNCHANGED <<vtype, page_num, entries, net>>
              ELSE LET call == ListingCall(1, 1)
                   IN  /\ entries' = <<>>
                       /\ vtype' = 1
                       /\ page_num' = 1
                       /\ api' = call
                       /\ signed' = <<call.sent[1].request>>
                       /\ pc' = "paging"
                       /\ net' = [net EXCEPT !.listing = @ + 1]
                       /\ UNCHANGED err
    /\ UNCHANGED <<eval, ie, creds, allow_unplayable, token, now, warnings, embedded,
                   dedicated, formats, last, result>>

\* lines 455-462: a listing call returned; the next one goes out, or the
\* playlist is returned
ListingJson ==
    /\ pc = "paging"
    /\ api.pc = "returned"
    /\ LET page == api.result[1].body
           got == entries \o [i \in DOMAIN page.response |-> url_result(page.response[i])]
       IN  /\ entries' = got
           /\ IF LastPage(page)
              THEN IF vtype = Len(VideoTypes)
                   THEN /\ pc' = "done"
                        /\ result' = [type |-> "playlist", id |-> channel_id,
                                      entries |-> got]
                        /\ api' = ApiIdle
                        /\ signed' = <<>>
                        /\ UNCHANGED <<vtype, page_num, net>>
                   ELSE LET call == ListingCall(vtype + 1, 1)
                        IN  /\ vtype' = vtype + 1
                            /\ page_num' = 1
                            /\ api' = call
                            /\ signed' = <<call.sent[1].request>>
                            /\ net' = [net EXCEPT !.listing = @ + 1]
                            /\ UNCHANGED <<pc, result>>
              ELSE /\ page_num < MaxPages
                   /\ LET call == ListingCall(vtype, page_num + 1)
                      IN  /\ page_num' = page_num + 1
                          /\ api' = call
                          /\ signed' = <<call.sent[1].request>>
                          /\ net' = [net EXCEPT !.listing = @ + 1]
                          /\ UNCHANGED <<pc, result, vtype>>
    /\ UNCHANGED <<eval, ie, creds, allow_unplayable, err, token, now, warnings, blockers,
                   embedded, dedicated, formats, last>>

---------------------------------------------------------------------------
(* The extractor: one instance, initialized once, extracting one URL.      *)

\* no helper function is evaluated on its own during an extraction
NoEval == [fn |-> ""]

LoginForms == {None, Some([login_id |-> "user", password |-> "secret"])}

Init ==
    /\ ie \in {"viki", "viki:channel"}
    /\ creds \in LoginForms
    /\ allow_unplayable \in (IF ie = "viki" THEN BOOLEAN ELSE {FALSE})
    /\ pc = "initialize"
    /\ err = None
    /\ token = None
    /\ now = 1
    /\ api = ApiIdle
    /\ signed = <<>>
    /\ warnings = 0
    /\ blockers = <<>>
    /\ embedded = <<>>
    /\ dedicated = <<>>
    /\ formats = <<>>
    /\ last = None
    /\ result = None
    /\ vtype = 1
    /\ page_num = 1
    /\ entries = <<>>
    /\ net = NetZero
    /\ eval = NoEval

Next ==
    \/ Tick
    \/ _real_initialize
    \/ _call_api_first
    \/ _call_api_retry
    \/ _login
    \/ VikiIE_real_extract
    \/ VideoJson
    \/ AddEmbedded
    \/ StreamsJson
    \/ AddDedicated
    \/ VikiChannelIE_real_extract
    \/ ChannelJson
    \/ ListingJson

Spec == Init /\ [][Next]_vars

---------------------------------------------------------------------------
(* The channel paginator without a page limit.  itertools.count(1) has no  *)
(* end: from page MaxPages on, the page number, the call counter and the   *)
(* entries are held at what they were when the bound was reached, and the  *)
(* control flow is the code's.  Every request is answered and the          *)
(* extraction takes its next step whenever it has one.                     *)

\* lines 450-460 from page MaxPages on: the page reported a next page, so
\* the next listing call goes out
ListingJson_beyond ==
    /\ pc = "paging"
    /\ api.pc = "returned"
    /\ ~LastPage(api.result[1].body)
    /\ page_num = MaxPages
    /\ LET call == ListingCall(vtype, page_num)
       IN  /\ api' = call
           /\ signed' = <<call.sent[1].request>>
    /\ UNCHANGED <<eval, ie, creds, allow_unplayable, pc, err, token, now, warnings,
                   blockers, embedded, dedicated, formats, last, result, vtype,
                   page_num, entries, net>>

InitChannel == Init /\ ie = "viki:channel"

NextChannel ==
    \/ Tick
    \/ _real_initialize
    \/ _call_api_first
    \/ _call_api_retry
    \/ _login
    \/ VikiChannelIE_real_extract
    \/ ChannelJson
    \/ ListingJson
    \/ ListingJson_beyond

SpecChannel == InitChannel /\ [][NextChannel]_vars /\ WF_vars(NextChannel)

---------------------------------------------------------------------------
(* Helper functions evaluated on their own: the arguments are drawn from   *)
(* bounded sets, one step evaluates the function, nothing is extracted.    *)

\* the instance while a helper is evaluated on its own
HelperState ==
    /\ ie = "viki"
    /\ creds = None
    /\ pc = "helper"
    /\ err = None
    /\ api = ApiIdle
    /\ signed = <<>>
    /\ warnings = 0
    /\ blockers = <<>>
    /\ embedded = <<>>
    /\ dedicated = <<>>
    /\ formats = <<>>
    /\ last = None
    /\ result = None
    /\ vtype = 1
    /\ page_num = 1
    /\ entries = <<>>
    /\ net = NetZero

HelperFrame ==
    UNCHANGED <<ie, creds, allow_unplayable, pc, err, token, now, api, signed,
                warnings, blockers, embedded, dedicated, formats, last, result,
                vtype, page_num, entries, net>>

---------------------------------------------------------------------------
(* dict_selection.  A value of the dict is None (null) or a str.           *)

MaxTitles == 2

\* Variant: an empty value under the preferred key is treated as missing.
dict_selection_truthy_preferred(dict_obj, preferred_key, allow_fallback) ==
    LET values == [i \in DOMAIN dict_obj |-> dict_obj[i][2]]
        filtered_dict == SelectSeq(values, TruthyStr)
    IN  IF preferred_key \in Keys(dict_obj)
           /\ TruthyStr(Get(dict_obj, preferred_key)[1])
        THEN Get(dict_obj, preferred_key)[1]
        ELSE IF ~allow_fallback THEN None
        ELSE IF filtered_dict /= <<>> THEN filtered_dict[1] ELSE None

dict_selection(dict_obj, preferred_key, allow_fallback) ==
    IF preferred_key \in Keys(dict_obj)
    THEN Get(dict_obj, preferred_key)[1]
    ELSE IF ~allow_fallback THEN None
    ELSE LET values == [i \in DOMAIN dict_obj |-> dict_obj[i][2]]
             filtered_dict == SelectSeq(values, TruthyStr)
         IN  IF filtered_dict /= <<>> THEN filtered_dict[1] ELSE None

\* The titles / descriptions maps: locale -> text.
Locales == {"en", "fr", "ko"}
Texts == {None, Some(""), Some("Title"), Some("Titre")}
TextMaps == ItemSeqs(Locales \X Texts, MaxTitles, {})

InitSelect ==
    /\ HelperState
    /\ allow_unplayable = FALSE
    /\ token = None
    /\ now = 1
    /\ eval \in {[fn |-> "dict_selection", dict_obj |-> d, preferred_key |-> k,
                  allow_fallback |-> f, done |-> FALSE, value |-> None] :
                    d \in TextMaps, k \in {"en", "ja"}, f \in BOOLEAN}

EvalSelect ==
    /\ eval.fn = "dict_selection"
    /\ ~eval.done
    /\ eval' = [eval EXCEPT !.done = TRUE,
                    !.value = dict_selection(eval.dict_obj, eval.preferred_key,
                                             eval.allow_fallback)]
    /\ HelperFrame

NextSelect == EvalSelect

SpecSelect == InitSelect /\ [][NextSelect]_vars

---------------------------------------------------------------------------
(* add_format on its own: one call on any format id, protocol and entry,   *)
(* with any answer of the network exchange the call makes.                 *)

MaxVariants == 2

FormatIds == {"m3u8", "hls", "mpd", "dash", "360p", "720P", "p360", "rtmp"}
Protocols == {"http", "https", "rtmp", "rtmps"}
FormatDicts ==
    {[url |-> None]} \cup
    {[url |-> Some(u)] : u \in {U_empty, U_mp4, U_rtmp, U_rtmp_bad, U_obfuscated,
                                U_obfuscated_rtmp}}

\* What an HLS manifest can list: f['url'], f.get('acodec'), f.get('vcodec').
Variants ==
    {[url |-> u, acodec |-> a, vcodec |-> v] :
        u \in {U_variant, U_variant_drm},
        a \in {Some("none"), Some("mp4a.40.2")},
        v \in {None, Some("none"), Some("avc1")}}
VariantSeqs == UNION {[1 .. n -> Variants] : n \in 0 .. MaxVariants}

\* What the network exchange of a branch can answer.
WideAnswers(branch) ==
    CASE branch = "hls" ->
            {[ok |-> FALSE, formats |-> <<>>]}
            \cup {[ok |-> TRUE, formats |-> fs] : fs \in VariantSeqs}
      [] branch = "dash" -> MpdAnswers
      [] branch = "http" ->
            HeadAnswers \cup {[ok |-> TRUE, content_length |-> Some("chunked")]}
      [] OTHER -> {NoAnswer}

\* the network exchange a call makes, or None: which, and for which URL
Exchange(format_id, format_dict, protocol) ==
    LET branch == Branch(format_id, format_dict, protocol)
    IN  CASE branch = "hls" -> Some([kind |-> "m3u8", url |-> FormatUrl(format_dict)])
          [] branch = "dash" -> Some([kind |-> "mpd", url |-> FormatUrl(format_dict)])
          [] branch = "http" -> Some([kind |-> "HEAD", url |-> FormatUrl(format_dict)])
          [] OTHER -> None

InitFormat ==
    /\ HelperState
    /\ allow_unplayable \in BOOLEAN
    /\ token = None
    /\ now = 1
    /\ eval \in UNION {
            {[fn |-> "add_format", format_id |-> e[1], format_dict |-> e[2],
              protocol |-> e[3], answer |-> a, done |-> FALSE, value |-> None,
              exchange |-> None] : a \in WideAnswers(Branch(e[1], e[2], e[3]))} :
            e \in FormatIds \X FormatDicts \X Protocols}

EvalFormat ==
    /\ eval.fn = "add_format"
    /\ ~eval.done
    /\ eval' = [eval EXCEPT
            !.done = TRUE,
            !.value = Some(add_format(eval.format_id, eval.format_dict,
                                      eval.protocol, eval.answer)),
            !.exchange = Exchange(eval.format_id, eval.format_dict, eval.protocol)]
    /\ HelperFrame

NextFormat == EvalFormat

SpecFormat == InitFormat /\ [][NextFormat]_vars

---------------------------------------------------------------------------
(* _prepare_call on its own: any path, timestamp, payload and token; the   *)
(* same call is made twice, the clock being free to advance in between.    *)

SignPaths ==
    {<<"sessions.json">>,
     <<"videos/", video_id, "/streams.json">>,
     <<"videos/", video_id, "/subtitles/", "en", ".", "srt">>,
     <<"containers/", channel_id, "/", "episodes", ".json", "?", "per_page=",
       ToString(_PER_PAGE), "&sort=number&direction=asc&with_paging=true&page=", "1">>}
SignTimestamps == {None} \cup {Some(t) : t \in 0 .. MaxClock + 1}
SignTokens == {None, Some(""), Some("tok"), Some("tok2")}

InitSign ==
    /\ HelperState
    /\ allow_unplayable = FALSE
    /\ token \in SignTokens
    /\ now = 1
    /\ eval \in {[fn |-> "_prepare_call", path |-> p, timestamp |-> t,
                  post_data |-> d, built |-> <<>>] :
                    p \in SignPaths, t \in SignTimestamps, d \in LoginForms}

EvalSign ==
    /\ eval.fn = "_prepare_call"
    /\ Len(eval.built) < 2
    /\ eval' = [eval EXCEPT !.built = Append(@,
                    [at |-> now,
                     request |-> _prepare_call(eval.path, eval.timestamp,
                                               eval.post_data)])]
    /\ HelperFrame

NextSign ==
    \/ EvalSign
    \/ Tick

SpecSign == InitSign /\ [][NextSign]_vars

---------------------------------------------------------------------------
(* Properties.                                                             *)

TimestampError == Some("invalid timestamp")
LastResp == api.resps[Len(api.resps)]
ApiEnded == api.pc \in {"returned", "raised"}

\* C1: an 'invalid timestamp' first response makes _call_api re-issue the
\* request exactly once; no third request is issued whatever the second
\* response holds, so an invocation makes at most 2 network calls; and a
\* second response without error is the response that is returned.
C1_SingleRetry ==
    /\ Len(api.sent) <= 2
    /\ Len(api.resps) <= Len(api.sent)
    /\ (Len(api.resps) >= 1 /\ api.resps[1].error = TimestampError)
            => Len(api.sent) = 2
    /\ Len(api.resps) = 2 => ApiEnded
    /\ (api.pc = "returned" /\ Len(api.resps) = 2)
            => /\ api.result = Some(api.resps[2])
               /\ ~TruthyStr(api.resps[2].error)

\* the retry was answered without error and its response was returned
C1_Witness ==
    /\ api.pc = "returned"
    /\ Len(api.sent) = 2
    /\ api.resps[1].error = TimestampError

\* C2: a first response with a non-empty error other than 'invalid
\* timestamp' ends _call_api after 1 network call with the expected error
\* that carries that message; an error in the response to the retry ends
\* it with the error that carries the second response's message; a
\* response is returned only if it carries no error.
C2_ErrorsAreTerminal ==
    /\ (Len(api.resps) >= 1 /\ TruthyStr(api.resps[1].error)
            /\ api.resps[1].error /= TimestampError)
            => /\ api.pc = "raised"
               /\ Len(api.sent) = 1
               /\ Len(api.resps) = 1
    /\ (Len(api.resps) = 2 /\ TruthyStr(api.resps[2].error)) => api.pc = "raised"
    /\ api.pc = "raised"
            => /\ TruthyStr(LastResp.error)
               /\ pc = "failed"
               /\ err = Some([kind |-> "ExtractorError",
                              msg |-> <<ie, " returned error: ", LastResp.error[1]>>,
                              expected |-> TRUE])
    /\ api.pc = "returned"
            => /\ api.result = Some(LastResp)
               /\ ~TruthyStr(LastResp.error)

\* the retry was answered with another error, which is the one raised
C2_Witness ==
    /\ api.pc = "raised"
    /\ Len(api.sent) = 2
    /\ api.resps[2].error = Some("something else")

\* the query of a signed request carries the token, inside what is signed
SignedWithToken(r, t) ==
    LET q == r.url.query
    IN  /\ Len(q) >= 2
        /\ q[Len(q) - 1] = "&token="
        /\ q[Len(q)] = t
        /\ r.url.sig = hexdigest(_APP_SECRET, q)
SignedWithoutToken(r) ==
    /\ "&token=" \notin Range(r.url.query)
    /\ r.url.sig = hexdigest(_APP_SECRET, r.url.query)

\* C3: the token starts absent and changes at most once, to the token a
\* login response carries; while it is set every signed query built by
\* _prepare_call (API calls, their retries, subtitle URLs) holds
\* '&token=<token>' inside the signed string, and while it is absent no
\* signed query holds a token parameter.
C3_TokenLifecycle ==
    /\ [](pc \in {"initialize", "login"} => token = None)
    /\ [](\A i \in DOMAIN signed :
            IF TruthyStr(token) THEN SignedWithToken(signed[i], token[1])
            ELSE SignedWithoutToken(signed[i]))
    /\ [][token' /= token
            => /\ token = None
               /\ pc = "login"
               /\ api.pc = "returned"
               /\ TruthyStr(api.result[1].body.token)
               /\ token' = api.result[1].body.token
               /\ signed' = <<>>]_vars

\* the subtitle URLs of a logged-in extraction were signed
C3_Witness ==
    /\ token = Some("tok")
    /\ net.subtitles >= 2
    /\ Len(signed) >= 2

\* C4: when the 'blocking' map of a video or a channel holds a recognized
\* reason with a truthy value, the extraction fails before any streams
\* call, manifest delegation, HEAD probe, subtitle signing or listing call.
C4_RestrictionsFirst ==
    blockers /= <<>>
        => /\ pc = "failed"
           /\ err /= None
           /\ net.streams = 0
           /\ net.manifest = 0
           /\ net.head = 0
           /\ net.subtitles = 0
           /\ net.listing = 0
           /\ signed = <<>>

\* a video behind the paywall
C4_Witness ==
    /\ ie = "viki"
    /\ pc = "failed"
    /\ blockers = <<"paywall">>

\* the error _check_errors raises for a recognized reason
RestrictionError(reason) ==
    CASE reason = "geo" ->
            [kind |-> "GeoRestrictedError",
             msg |-> <<"Sorry, this content is not available in your region.">>,
             expected |-> TRUE]
      [] reason = "paywall" ->
            [kind |-> "LoginRequiredError",
             msg |-> <<"Sorry, this content is only available to Viki Pass Plus subscribers">>,
             expected |-> TRUE]
      [] reason = "upcoming" ->
            [kind |-> "ExtractorError",
             msg |-> <<ie, " said: ", "Sorry, this content is not yet available.">>,
             expected |-> TRUE]
IsRestrictionError(e) ==
    \E reason \in {"geo", "paywall", "upcoming"} : e = RestrictionError(reason)

\* C5: _check_errors raises if and only if some item of the map has a
\* recognized reason with a truthy status, and the error is the one of the
\* first such item in the map's order; items with a falsy status or an
\* unrecognized reason never decide.
C5_FirstRecognizedReason ==
    /\ blockers /= <<>> => err = Some(RestrictionError(blockers[1]))
    /\ blockers = <<>> => (err = None \/ ~IsRestrictionError(err[1]))

\* two restrictions at once: the first, the paywall, is the one reported
C5_Witness ==
    /\ blockers = <<"paywall", "geo">>
    /\ err = Some(RestrictionError("paywall"))

\* C6: a failed manifest extraction, a failed HEAD probe, an RTMP URL that
\* does not match and a missing URL never raise: the entry is skipped (a
\* failed probe still gives a progressive descriptor, without filesize)
\* and the extraction goes on.
C6_DegradationsNeverRaise ==
    (last /= None /\ last[1].met \in {"manifest_failed", "probe_failed",
                                      "rtmp_mismatch", "no_url"})
        => /\ pc /= "failed"
           /\ err = None
           /\ IF last[1].met = "probe_failed"
              THEN /\ Len(last[1].appended) = 1
                   /\ last[1].appended[1].filesize = None
              ELSE last[1].appended = <<>>

\* C7 as stated: a non-empty embedded format map means the streams
\* endpoint is never called.
C7_NonEmptyMapSkipsStreams ==
    net.embedded_items > 0 => net.streams = 0

\* C7 as amended: when the embedded format map gave at least one
\* descriptor, the streams endpoint is never called and the formats of the
\* result are the descriptors of that map.
C7_YieldingMapSkipsStreams ==
    net.from_embedded > 0
        => /\ net.streams = 0
           /\ net.from_dedicated = 0
           /\ Len(formats) = net.from_embedded
           /\ pc = "done" => result.formats = Some(formats)

\* an extraction ended with the descriptors of the embedded map
C7_Witness ==
    /\ pc = "done"
    /\ net.from_embedded > 0
    /\ result.formats /= None

\* the loop over the embedded map ran to its end
EmbeddedLoopEnded ==
    /\ ie = "viki"
    /\ net.meta = 1
    /\ pc \notin {"video_json", "embedded"}
    /\ blockers = <<>>
    /\ embedded = <<>>

\* C8: the streams endpoint is called if and only if the embedded map gave
\* no descriptor, at most once in an extraction, and the formats never mix
\* descriptors of the embedded map with descriptors of the streams
\* response.
C8_FallbackOnlyWhenEmpty ==
    /\ net.streams <= 1
    /\ EmbeddedLoopEnded => (net.streams = 1 <=> net.from_embedded = 0)
    /\ ~EmbeddedLoopEnded => net.streams = 0
    /\ net.from_embedded = 0 \/ net.from_dedicated = 0
    /\ Len(formats) = net.from_embedded + net.from_dedicated

\* a non-empty embedded map gave nothing and the streams response gave the
\* formats
C8_Witness ==
    /\ pc = "done"
    /\ net.embedded_items > 0
    /\ net.streams = 1
    /\ net.from_dedicated > 0

\* the streams call returned a response with an 'external' item
ExternalReturned ==
    /\ pc = "streams"
    /\ api.pc = "returned"
    /\ \E i \in DOMAIN api.result[1].body : api.result[1].body[i][1] = "external"

\* C9: a streams response with an 'external' item ends the extraction with
\* a url_transparent result for the external URL and without formats; no
\* entry of the response is resolved: no HEAD probe, no manifest
\* delegation and no descriptor after the response was received.
C9_ExternalDelegates ==
    /\ [][(ExternalReturned /\ pc' /= pc)
            => /\ pc' = "done"
               /\ result'.type = Some("url_transparent")
               /\ result'.url = Some(U_external)
               /\ result'.formats = None
               /\ net'.external = 1
               /\ net'.head = net.head
               /\ net'.manifest = net.manifest
               /\ formats' = <<>>
               /\ dedicated' = <<>>]_vars
    /\ [](net.external = 1
            => /\ pc = "done"
               /\ result.type = Some("url_transparent")
               /\ result.formats = None
               /\ net.from_dedicated = 0)
    /\ [][pc = "done" => FALSE]_vars

\* the response held format entries beside the 'external' item
C9_Witness ==
    /\ pc = "done"
    /\ net.external = 1
    /\ Len(api.result[1].body) > 1

\* the items of a page as entries
PageEntries(page) == [i \in DOMAIN page.response |->
    [type |-> "url", url |-> <<"https://www.viki.com/videos/", page.response[i]>>,
     ie_key |-> "Viki"]]

\* C10: listing calls are issued one after the other, for episodes, clips,
\* movies in that order and for the pages 1, 2, 3, ... of each; page N + 1
\* is asked only after page N reported a next page and the category is
\* left at the first page that reports none; the entries are the items of
\* the received pages in request order, duplicates kept.
C10_PaginationOrder ==
    /\ [][net'.listing /= net.listing
            => /\ net'.listing = net.listing + 1
               /\ api.pc = "returned"
               /\ api'.pc = "first"
               /\ api'.path = <<"containers/", channel_id, "/", VideoTypes[vtype'],
                                ".json", "?", "per_page=", "25",
                                "&sort=number&direction=asc&with_paging=true&page=",
                                ToString(page_num')>>
               /\ IF net.listing = 0
                  THEN vtype' = 1 /\ page_num' = 1 /\ entries' = <<>>
                  ELSE IF api.result[1].body.pagination.next
                  THEN vtype' = vtype /\ page_num' = page_num + 1
                  ELSE vtype' = vtype + 1 /\ page_num' = 1]_vars
    /\ [][(pc = "paging" /\ api.pc = "returned" /\ api' /= api)
            => /\ entries' = entries \o PageEntries(api.result[1].body)
               /\ (pc' = "done" <=> (vtype = 3 /\ ~api.result[1].body.pagination.next))
               /\ pc' = "done" => result'.entries = entries']_vars
    /\ [][entries' /= entries => (pc = "paging" /\ api.pc = "returned")]_vars

\* three categories of two full pages each: six listing calls
C10_Witness ==
    /\ pc = "done"
    /\ ie = "viki:channel"
    /\ net.listing = 6
    /\ Len(result.entries) = 12

\* C11: the channel enumeration always ends: whatever the server answers,
\* after finitely many listing calls the extraction has returned or failed.
C11_ChannelTerminates == <>(pc \in {"done", "failed"})

\* C12: dict_selection returns the value under the preferred key whenever
\* the key is present, empty or not, whatever allow_fallback is; without
\* the key and with allow_fallback, the first value of the map, in stored
\* order, that is neither None nor empty, or None when there is none;
\* without the key and without allow_fallback, None.
C12_DictSelection ==
    (eval.fn = "dict_selection" /\ eval.done)
        => LET d == eval.dict_obj
               present == \E i \in DOMAIN d : d[i][1] = eval.preferred_key
               full(i) == d[i][2] /= None /\ d[i][2] /= Some("")
           IN  /\ present
                    => \E i \in DOMAIN d : /\ d[i][1] = eval.preferred_key
                                           /\ eval.value = d[i][2]
               /\ (~present /\ eval.allow_fallback)
                    => IF \E i \in DOMAIN d : full(i)
                       THEN \E i \in DOMAIN d :
                                /\ full(i)
                                /\ \A j \in 1 .. i - 1 : ~full(j)
                                /\ eval.value = d[i][2]
                       ELSE eval.value = None
               /\ (~present /\ ~eval.allow_fallback) => eval.value = None

\* the fallback passed over an empty first value and took the second
C12_Witness ==
    /\ eval.fn = "dict_selection"
    /\ eval.done
    /\ eval.dict_obj = <<<<"fr", Some("")>>, <<"ko", Some("Title")>>>>
    /\ eval.preferred_key = "en"
    /\ eval.allow_fallback
    /\ eval.value = Some("Title")

\* an add_format call that was evaluated
Resolved == eval.fn = "add_format" /\ eval.done
\* the entry is skipped before anything is looked at
Skipped ==
    \/ eval.protocol = "rtmps"
    \/ eval.format_dict.url = None
    \/ eval.format_dict.url[1].text = ""
\* the URL of the entry after its 'stream' parameter, if any, was decoded
ResolvedUrl ==
    LET raw == eval.format_dict.url[1]
    IN  IF raw.stream /= None THEN raw.stream[1].b64 ELSE raw
IsHlsId == eval.format_id \in {"m3u8", "hls"}
IsDashId == eval.format_id \in {"mpd", "dash"}
IsRtmpUrl == ResolvedUrl.text \in {"rtmp://host.example/vod/mp4:clip",
                                   "rtmp://host.example/clip.flv"}

\* C13: an entry with protocol 'rtmps' or without URL gives no descriptor
\* and no network exchange; every other entry is handled, on its URL with
\* the 'stream' parameter decoded, by exactly one branch: HLS for the
\* format ids m3u8 / hls, else DASH for mpd / dash, else RTMP (one
\* descriptor, or none on mismatch) for a URL that starts with 'rtmp',
\* else progressive.
C13_Classification ==
    Resolved =>
        LET r == eval.value[1]
            x == eval.exchange
        IN  IF Skipped
            THEN r.append = <<>> /\ r.raised = None /\ x = None
            ELSE IF IsHlsId
            THEN /\ x = Some([kind |-> "m3u8", url |-> ResolvedUrl])
                 /\ r.met \in {"hls", "manifest_failed"}
                 /\ \A i \in DOMAIN r.append : r.append[i].protocol = "m3u8_native"
            ELSE IF IsDashId
            THEN /\ x = Some([kind |-> "mpd", url |-> ResolvedUrl])
                 /\ r.met \in {"dash", "manifest_failed"}
                 /\ \A i \in DOMAIN r.append :
                        r.append[i].protocol = "http_dash_segments"
            ELSE IF IsRtmpUrl
            THEN /\ x = None
                 /\ r.raised = None
                 /\ \/ r.met = "rtmp_mismatch" /\ r.append = <<>>
                    \/ /\ r.met = "rtmp"
                       /\ Len(r.append) = 1
                       /\ r.append[1].ext = "flv"
                       /\ r.append[1].format_id = <<"rtmp-", eval.format_id>>
            ELSE /\ x = Some([kind |-> "HEAD", url |-> ResolvedUrl])
                 /\ r.met \in {"http", "probe_failed"}
                 /\ r.raised = None
                        => Len(r.append) = 1 /\ r.append[1].url = ResolvedUrl

\* the format id decides before the URL does: an 'hls' entry whose decoded
\* URL starts with 'rtmp' goes to the HLS extractor, with the decoded URL
C13_Witness ==
    /\ Resolved
    /\ eval.format_id = "hls"
    /\ eval.protocol = "http"
    /\ eval.format_dict.url = Some(U_obfuscated_rtmp)
    /\ eval.exchange = Some([kind |-> "m3u8", url |-> U_rtmp])

\* the entry takes the progressive branch
IsProgressive == Resolved /\ ~Skipped /\ ~IsHlsId /\ ~IsDashId /\ ~IsRtmpUrl

\* C14: every progressive entry gives exactly one HEAD probe and exactly
\* one descriptor, with id '<formatId>-<protocol>', the resolved URL, the
\* height N when the format id is '<digits>p' and no height when it has no
\* such shape, and the Content-Length of the probe as filesize.
C14_ProgressiveDescriptor ==
    IsProgressive =>
        LET r == eval.value[1]
        IN  /\ eval.exchange = Some([kind |-> "HEAD", url |-> ResolvedUrl])
            /\ Len(r.append) = 1
            /\ r.append[1].format_id = <<eval.format_id, "-", eval.protocol>>
            /\ r.append[1].url = ResolvedUrl
            /\ eval.format_id = "360p" => r.append[1].height = Some(360)
            /\ eval.format_id \in {"p360", "rtmp"} => r.append[1].height = None
            /\ eval.answer.content_length = Some("1048576")
                    => r.append[1].filesize = Some(1048576)
            /\ eval.answer.content_length = None => r.append[1].filesize = None

\* the login call returned a response without token
LoginWithoutToken ==
    /\ pc = "login"
    /\ api.pc = "returned"
    /\ ~TruthyStr(api.result[1].body.token)

\* C15: without credentials no login call is issued and the token stays
\* absent; a login response without error and without token gives one
\* warning and no error, leaves the token absent, and the extraction goes
\* on with every later signed query built without token.
C15_LoginOutcomes ==
    /\ [](creds = None => (net.login = 0 /\ token = None /\ warnings = 0))
    /\ [][(LoginWithoutToken /\ pc' /= pc)
            => /\ pc' = "extract"
               /\ err' = None
               /\ token' = None
               /\ warnings' = warnings + 1]_vars
    /\ [][warnings' /= warnings => LoginWithoutToken]_vars
    /\ [](warnings > 0
            => /\ token = None
               /\ \A i \in DOMAIN signed : SignedWithoutToken(signed[i]))

\* after the warning the extraction went on: the subtitle URLs and the
\* streams call were signed, without token
C15_Witness ==
    /\ warnings = 1
    /\ pc = "streams"
    /\ net.subtitles >= 2
    /\ Len(signed) >= 3

\* the query a built URL must have, given the value of its 't' parameter
CanonicalQuery(t) ==
    <<"/v4/">> \o eval.path
        \o <<IF \E i \in DOMAIN eval.path : eval.path[i] = "?" THEN "&" ELSE "?">>
        \o <<"app=", "100005a", "&t=", ToString(t), "&site=www.viki.com">>
        \o (IF token /= None /\ token /= Some("") THEN <<"&token=", token[1]>>
            ELSE <<>>)

\* the values 't' may have in a URL built at clock value at
SignedTimes(at) ==
    IF eval.timestamp = None THEN {at}
    ELSE IF eval.timestamp[1] /= 0 THEN {eval.timestamp[1]}
    ELSE {0, at}

IsHlsEntry == Resolved /\ ~Skipped /\ IsHlsId
\* the URL carries the DRM marker '_drm/index_'
IsDrmUrl(u) == u.text = "https://cdn.example/x_drm/index_1.m3u8"
\* the URLs of a list of formats, in order
UrlsOf(fs) == [i \in DOMAIN fs |-> fs[i].url]

\* C17: without allow_unplayable_formats no format of an HLS entry whose
\* URL carries the DRM marker is appended, and every other one is; with
\* it, all the formats of the manifest are appended; and no appended
\* format has acodec 'none' while its vcodec is not 'none'.
C17_HlsPostProcessing ==
    IsHlsEntry =>
        LET offered == eval.answer.formats
            appended == eval.value[1].append
        IN  /\ allow_unplayable => UrlsOf(appended) = UrlsOf(offered)
            /\ ~allow_unplayable
                => /\ \A i \in DOMAIN appended : ~IsDrmUrl(appended[i].url)
                   /\ UrlsOf(appended)
                        = SelectSeq(UrlsOf(offered), LAMBDA u : ~IsDrmUrl(u))
            /\ \A i \in DOMAIN appended :
                    ~(appended[i].acodec = Some("none")
                        /\ appended[i].vcodec /= Some("none"))

\* with the opt-in, a DRM format listed as video-only was kept, its acodec
\* no longer 'none'
C17_Witness ==
    /\ IsHlsEntry
    /\ allow_unplayable
    /\ Len(eval.answer.formats) = 2
    /\ eval.answer.formats[1].url = U_variant_drm
    /\ eval.answer.formats[1].acodec = Some("none")
    /\ eval.answer.formats[1].vcodec = Some("avc1")
    /\ Len(eval.value[1].append) = 2
    /\ eval.value[1].append[1].acodec = None

\* the value of the 't' parameter of a request of the running _call_api
SignedT(request) == request.request.url.query[Len(api.path) + 6]

\* C18: the timestamp passed to _prepare_call is the one that is signed:
\* the 't' parameter of the re-issued request is the current_timestamp of
\* the response that asked for it, whatever integer that is.
C18_SuppliedTimestampSigned ==
    Len(api.sent) = 2
        => SignedT(api.sent[2]) = ToString(api.resps[1].current_timestamp[1])

\* the query of a request of the running _call_api without its 't' value
QueryButT(request) ==
    LET q == request.request.url.query
        n == Len(api.path)
    IN  <<SubSeq(q, 1, n + 5), SubSeq(q, n + 7, Len(q))>>

\* C19: the re-issued request of _call_api has the path, the POST payload,
\* the client-identity headers and the token parameter of the first
\* request, so that only the timestamp and the signature over it can
\* differ; and no step of _call_api changes the session token.
C19_RetryFrame ==
    /\ [](Len(api.sent) = 2
            => /\ QueryButT(api.sent[2]) = QueryButT(api.sent[1])
               /\ SubSeq(api.sent[2].request.url.query, 2, Len(api.path) + 1)
                    = api.path
               /\ api.sent[2].request.data = api.sent[1].request.data
               /\ api.post_data /= None
                    => api.sent[2].request.data = Some([json |-> api.post_data[1]])
               /\ api.sent[2].headers = api.sent[1].headers)
    /\ [][api.pc \in {"first", "retry"} => token' = token]_vars

\* a login call was retried and returned: the credentials were posted twice
C19_Witness ==
    /\ api.caller = "login"
    /\ api.pc = "returned"
    /\ Len(api.sent) = 2
    /\ api.sent[2].request.data = Some([json |-> creds[1]])

====
